---- MODULE Spec2Model ----
(***************************************************************************)
(* A model of the typebits crate: type-level bits, bitstrings, the lazy    *)
(* conditional, the half adder / half subtractor and ripple-carry          *)
(* addition and subtraction.                                               *)
(*                                                                         *)
(* A bitstring type is modelled by the sequence of its bits, most          *)
(* significant first.  A single bit (B0 / B1) is a sequence of length 1,   *)
(* Tape<H, B> is the sequence of H followed by the bit B, so a Tape always *)
(* has length >= 2.  A type-level function (an associated type or a type   *)
(* alias) is an operator that computes the normal form the compiler        *)
(* resolves the type to.                                                   *)
(***************************************************************************)
EXTENDS Integers, Sequences, FiniteSets, TLC

\* Longest operand, in written bits, that the model instantiates.
MaxLen == 4

\* Cap on the number of unfoldings the step-wise evaluator may take.
MaxUnfold == 5

(***************************************************************************)
(* bits.rs: single bits                                                    *)
(***************************************************************************)
B0 == 0

B1 == 1

BitSet == {B0, B1}

\* impl Bit for B1 { And<Other> = Other }, impl Bit for B0 { And<Other> = B0 }
BitAnd(A, B) == IF A = B1 THEN B ELSE B0

\* impl Bit for B1 { Or<Other> = B1 }, impl Bit for B0 { Or<Other> = Other }
BitOr(A, B) == IF A = B1 THEN B1 ELSE B

\* impl Bit for B1 { Not = B0 }, impl Bit for B0 { Not = B1 }
BitNot(A) == IF A = B1 THEN B0 ELSE B1

\* Bit::Bool: B1 -> True, B0 -> False
Bool(A) == IF A = B1 THEN TRUE ELSE FALSE

\* Bit::RENDER
RENDER(A) == IF A = B1 THEN "1" ELSE "0"

(***************************************************************************)
(* gates.rs: derived single-bit gates                                      *)
(***************************************************************************)
BitXor(A, B) == BitOr(BitAnd(A, BitNot(B)), BitAnd(BitNot(A), B))

(***************************************************************************)
(* bits.rs: bitstrings                                                     *)
(***************************************************************************)
\* struct Tape<H: Bitstring, B: Bit>
Tape(H, B) == Append(H, B)

IsTape(X) == Len(X) > 1

\* Bitstring::Head: H for Tape<H, B>, B0 for a single bit
HeadOf(X) == IF IsTape(X) THEN SubSeq(X, 1, Len(X) - 1) ELSE <<B0>>

\* Bitstring::Lsb: B for Tape<H, B>, the bit itself for a single bit
LsbOf(X) == X[Len(X)]

\* All bitstring types written with 1..n bits.
RECURSIVE BitstringsOfLen(_)
BitstringsOfLen(n) ==
    IF n = 1 THEN {<<b>> : b \in BitSet}
    ELSE {Tape(h, b) : h \in BitstringsOfLen(n - 1), b \in BitSet}

Bitstrings(n) == UNION {BitstringsOfLen(k) : k \in 1..n}

RECURSIVE render(_)

\* render with the bit's digit before the head's.
renderLsbFirst(X) ==
    IF IsTape(X) THEN <<RENDER(LsbOf(X))>> \o render(HeadOf(X))
    ELSE <<RENDER(X[1])>>

\* The unsigned number a bitstring denotes (Bitstring::UNSIGNED): bits read
\* most significant first.
RECURSIVE Value(_)
Value(X) == IF IsTape(X) THEN 2 * Value(HeadOf(X)) + LsbOf(X) ELSE X[1]

\* Bitstring::render: the head's render followed by the bit's RENDER.
render(X) ==
    IF IsTape(X) THEN render(HeadOf(X)) \o <<RENDER(LsbOf(X))>>
    ELSE <<RENDER(X[1])>>

(***************************************************************************)
(* lib.rs: the bitstring! / bs! macro.  Its input is the sequence of the   *)
(* tokens written between the commas: 0, 1, B0 or B1.                      *)
(***************************************************************************)
\* (@bit 0) => B0, (@bit 1) => B1, (@bit B0) => B0, (@bit B1) => B1
MacroBit(tok) == IF tok \in {"1", "B1"} THEN B1 ELSE B0

\* (@acc $acc, $next, $rest...) => @acc Tape<$acc, @bit $next>, $rest... ; (@acc $acc) => $acc
RECURSIVE MacroAcc(_, _)
MacroAcc(acc0, rest) ==
    IF rest = <<>> THEN acc0
    ELSE MacroAcc(Tape(acc0, MacroBit(rest[1])), SubSeq(rest, 2, Len(rest)))

\* bitstring!(first, second, rest...) and bitstring!(only)
bitstring(toks) ==
    IF Len(toks) >= 2
    THEN MacroAcc(Tape(<<MacroBit(toks[1])>>, MacroBit(toks[2])), SubSeq(toks, 3, Len(toks)))
    ELSE <<MacroBit(toks[1])>>

(***************************************************************************)
(* bits.rs: byte_conditionals (and conditional.rs: conditional_system!)    *)
(***************************************************************************)
\* struct Thunk<T>: a Lazy whose Output is T
Thunk(T) == [lazy |-> "Thunk", T |-> T]

\* struct AddRecurse<A, B, CarryIn>
AddRecurse(A, B, CarryIn) ==
    [lazy |-> "AddRecurse", A |-> A, B |-> B, CarryIn |-> CarryIn]

\* struct SubtractRecurse<A, B, BorrowIn>
SubtractRecurse(A, B, BorrowIn) ==
    [lazy |-> "SubtractRecurse", A |-> A, B |-> B, CarryIn |-> BorrowIn]

\* Select with impl Boolean for False { Select = Then }.
SelectThen(Cond, Then, Else) == Then

\* Boolean::Select: True selects Then, False selects Else
Select(Cond, Then, Else) == IF Cond THEN Then ELSE Else

\* IsB0: <B::Not as Bit>::Bool for a bit, False for every Tape
IsB0(X) == IF IsTape(X) THEN FALSE ELSE Bool(BitNot(X[1]))

(***************************************************************************)
(* The type-level functions below are mutually recursive: trimming is a    *)
(* conditional, the conditional forces a Lazy, and forcing AddRecurse /    *)
(* SubtractRecurse unfolds the ripple once more.                           *)
(***************************************************************************)
RECURSIVE Trimmed(_)
RECURSIVE And(_, _)
RECURSIVE Or(_, _)
RECURSIVE Not(_)
RECURSIVE Output(_)
RECURSIVE SumWithCarry(_, _, _)
RECURSIVE DifferenceWithBorrow(_, _, _)

\* If<Cond, T, F> = <<Cond as Boolean>::Select<T, F> as Lazy>::Output
If(Cond, T, F) == Output(Select(Cond, T, F))

\* SimpleIf<Cond, T, F> = If<Cond, Thunk<T>, Thunk<F>>
SimpleIf(Cond, T, F) == If(Cond, Thunk(T), Thunk(F))

\* IfB0<B, T, F> = If<IsB0<B>, T, F>
IfB0(B, T, F) == If(IsB0(B), T, F)

\* Trimmed with the condition on the head as written, IsB0<H>.
TrimmedUntrimmedCond(X) ==
    IF IsTape(X)
    THEN SimpleIf(IsB0(HeadOf(X)),
                  <<LsbOf(X)>>,
                  Tape(Trimmed(HeadOf(X)), LsbOf(X)))
    ELSE X

\* Trimmed without the recursion into the head: one leading zero bit is dropped.
TrimmedOnce(X) ==
    IF IsTape(X)
    THEN SimpleIf(IsB0(<<X[1]>>), SubSeq(X, 2, Len(X)), X)
    ELSE X

\* Bitstring::Trimmed: B for a single bit B; for Tape<H, B>
\* SimpleIf<IsB0<H::Trimmed>, B, Tape<H::Trimmed, B>>
Trimmed(X) ==
    IF IsTape(X)
    THEN SimpleIf(IsB0(Trimmed(HeadOf(X))),
                  <<LsbOf(X)>>,
                  Tape(Trimmed(HeadOf(X)), LsbOf(X)))
    ELSE X

\* And whose single-bit case is written like that of Or, keeping Other::Head.
AndBitLikeOr(X, Other) ==
    IF IsTape(X)
    THEN Trimmed(Tape(And(HeadOf(X), HeadOf(Other)), BitAnd(LsbOf(X), LsbOf(Other))))
    ELSE Trimmed(Tape(HeadOf(Other), BitAnd(X[1], LsbOf(Other))))

\* Bitstring::And: for Tape<H, B>  <Tape<H::And<Other::Head>, B::And<Other::Lsb>>>::Trimmed,
\* for a single bit B  <B::And<Other::Lsb>>::Trimmed
And(X, Other) ==
    IF IsTape(X)
    THEN Trimmed(Tape(And(HeadOf(X), HeadOf(Other)), BitAnd(LsbOf(X), LsbOf(Other))))
    ELSE Trimmed(<<BitAnd(X[1], LsbOf(Other))>>)

\* Or whose single-bit case is written like that of And, without Other::Head.
OrBitLikeAnd(X, Other) ==
    IF IsTape(X)
    THEN Trimmed(Tape(Or(HeadOf(X), HeadOf(Other)), BitOr(LsbOf(X), LsbOf(Other))))
    ELSE Trimmed(<<BitOr(X[1], LsbOf(Other))>>)

\* Bitstring::Or: for Tape<H, B>  <Tape<H::Or<Other::Head>, B::Or<Other::Lsb>>>::Trimmed,
\* for a single bit B  <Tape<Other::Head, B::Or<Other::Lsb>>>::Trimmed
Or(X, Other) ==
    IF IsTape(X)
    THEN Trimmed(Tape(Or(HeadOf(X), HeadOf(Other)), BitOr(LsbOf(X), LsbOf(Other))))
    ELSE Trimmed(Tape(HeadOf(Other), BitOr(X[1], LsbOf(Other))))

\* Not that complements the head and keeps the least significant bit.
NotKeepLsb(X) ==
    IF IsTape(X)
    THEN Trimmed(Tape(Not(HeadOf(X)), LsbOf(X)))
    ELSE <<BitNot(X[1])>>

\* Bitstring::Not: for Tape<H, B>  <Tape<H::Not, B::Not>>::Trimmed, for a bit B::Not
Not(X) ==
    IF IsTape(X)
    THEN Trimmed(Tape(Not(HeadOf(X)), BitNot(LsbOf(X))))
    ELSE <<BitNot(X[1])>>

\* gates.rs: Xor<A, B> = Or<And<A, Not<B>>, And<Not<A>, B>>
Xor(A, B) == Or(And(A, Not(B)), And(Not(A), B))

(***************************************************************************)
(* arithmetic/addition.rs                                                  *)
(***************************************************************************)
\* HalfAdd::Sum = BitXor<BitXor<Self, Rhs>, CarryIn>
HalfAddSum(Self, Rhs, CarryIn) == BitXor(BitXor(Self, Rhs), CarryIn)

\* Carry without the carry-in term.
HalfAddCarryNoCarryIn(Self, Rhs, CarryIn) == BitAnd(Self, Rhs)

\* HalfAdd::Carry = BitOr<BitAnd<Self, Rhs>, BitAnd<BitXor<Self, Rhs>, CarryIn>>
HalfAddCarry(Self, Rhs, CarryIn) ==
    BitOr(BitAnd(Self, Rhs), BitAnd(BitXor(Self, Rhs), CarryIn))

\* SumWithCarry whose base case is taken when the AND of the heads is zero.
SumWithCarryAndHeads(Self, Rhs, CarryIn) ==
    Tape(IfB0(And(HeadOf(Self), HeadOf(Rhs)),
              Thunk(<<HalfAddCarry(LsbOf(Self), LsbOf(Rhs), CarryIn)>>),
              AddRecurse(Self, Rhs, CarryIn)),
         HalfAddSum(LsbOf(Self), LsbOf(Rhs), CarryIn))

\* SumWithCarry whose base case looks at the head of Self alone.
SumWithCarryOwnHead(Self, Rhs, CarryIn) ==
    Tape(IfB0(Trimmed(HeadOf(Self)),
              Thunk(<<HalfAddCarry(LsbOf(Self), LsbOf(Rhs), CarryIn)>>),
              AddRecurse(Self, Rhs, CarryIn)),
         HalfAddSum(LsbOf(Self), LsbOf(Rhs), CarryIn))

\* Add::SumWithCarry
SumWithCarry(Self, Rhs, CarryIn) ==
    Tape(IfB0(Or(HeadOf(Self), HeadOf(Rhs)),
              Thunk(<<HalfAddCarry(LsbOf(Self), LsbOf(Rhs), CarryIn)>>),
              AddRecurse(Self, Rhs, CarryIn)),
         HalfAddSum(LsbOf(Self), LsbOf(Rhs), CarryIn))

\* Sum without the final Trimmed.
SumUntrimmed(A, B) == SumWithCarry(A, B, B0)

\* Add::Sum = <Self::SumWithCarry<Rhs, B0> as Bitstring>::Trimmed
Sum(A, B) == Trimmed(SumWithCarry(A, B, B0))

(***************************************************************************)
(* arithmetic/subtraction.rs                                               *)
(***************************************************************************)
\* Difference without the borrow-in.
HalfSubtractDifferenceNoBorrowIn(Self, Rhs, BorrowIn) == BitXor(Self, Rhs)

\* HalfSubtract::Difference = BitXor<Self, BitXor<Rhs, BorrowIn>>
HalfSubtractDifference(Self, Rhs, BorrowIn) == BitXor(Self, BitXor(Rhs, BorrowIn))

\* Borrow written like the adder's carry, without the BitNot on the XOR.
HalfSubtractBorrowNoNot(Self, Rhs, BorrowIn) ==
    BitOr(BitAnd(BitNot(Self), Rhs), BitAnd(BitXor(Self, Rhs), BorrowIn))

\* HalfSubtract::Borrow =
\*   BitOr<BitAnd<BitNot<Self>, Rhs>, BitAnd<BitNot<BitXor<Self, Rhs>>, BorrowIn>>
HalfSubtractBorrow(Self, Rhs, BorrowIn) ==
    BitOr(BitAnd(BitNot(Self), Rhs), BitAnd(BitNot(BitXor(Self, Rhs)), BorrowIn))

\* DifferenceWithBorrow whose base case asks IsB0 of the two heads as they
\* are written, not of their Or.
DifferenceWithBorrowWrittenHeads(Self, Rhs, CarryIn) ==
    Tape(If(IsB0(HeadOf(Self)) /\ IsB0(HeadOf(Rhs)),
            Thunk(<<B0>>),
            SubtractRecurse(Self, Rhs, CarryIn)),
         HalfSubtractDifference(LsbOf(Self), LsbOf(Rhs), CarryIn))

\* DifferenceWithBorrow whose base case looks at the head of Rhs alone.
DifferenceWithBorrowRhsHead(Self, Rhs, CarryIn) ==
    Tape(IfB0(Trimmed(HeadOf(Rhs)),
              Thunk(<<B0>>),
              SubtractRecurse(Self, Rhs, CarryIn)),
         HalfSubtractDifference(LsbOf(Self), LsbOf(Rhs), CarryIn))

\* DifferenceWithBorrow whose base case returns the final borrow, as addition
\* returns the final carry.
DifferenceWithBorrowKeepBorrow(Self, Rhs, CarryIn) ==
    Tape(IfB0(Or(HeadOf(Self), HeadOf(Rhs)),
              Thunk(<<HalfSubtractBorrow(LsbOf(Self), LsbOf(Rhs), CarryIn)>>),
              SubtractRecurse(Self, Rhs, CarryIn)),
         HalfSubtractDifference(LsbOf(Self), LsbOf(Rhs), CarryIn))

\* Subtract::DifferenceWithBorrow
DifferenceWithBorrow(Self, Rhs, CarryIn) ==
    Tape(IfB0(Or(HeadOf(Self), HeadOf(Rhs)),
              Thunk(<<B0>>),
              SubtractRecurse(Self, Rhs, CarryIn)),
         HalfSubtractDifference(LsbOf(Self), LsbOf(Rhs), CarryIn))

\* Subtract::Difference = <Self::DifferenceWithBorrow<Rhs, B0> as Bitstring>::Trimmed
Diff(A, B) == Trimmed(DifferenceWithBorrow(A, B, B0))

(***************************************************************************)
(* Lazy::Output                                                            *)
(***************************************************************************)
\* The instantiation that forcing AddRecurse / SubtractRecurse unfolds:
\* the two heads and the carry (borrow) out of the two least significant bits.
RecurseArgs(L) ==
    [Self |-> HeadOf(L.A),
     Rhs |-> HeadOf(L.B),
     CarryIn |-> IF L.lazy = "AddRecurse"
                 THEN HalfAddCarry(LsbOf(L.A), LsbOf(L.B), L.CarryIn)
                 ELSE HalfSubtractBorrow(LsbOf(L.A), LsbOf(L.B), L.CarryIn)]

\* impl Lazy for Thunk<T>, for AddRecurse<A, B, CarryIn> and for
\* SubtractRecurse<A, B, BorrowIn>
Output(L) ==
    IF L.lazy = "Thunk" THEN L.T
    ELSE IF L.lazy = "AddRecurse"
    THEN SumWithCarry(RecurseArgs(L).Self, RecurseArgs(L).Rhs, RecurseArgs(L).CarryIn)
    ELSE DifferenceWithBorrow(RecurseArgs(L).Self, RecurseArgs(L).Rhs, RecurseArgs(L).CarryIn)

(***************************************************************************)
(* State.  A run instantiates the type aliases of the crate on a pair of   *)
(* operand types and a carry-in bit.                                       *)
(*   lhs, rhs  the operand bitstrings A and B                              *)
(*   cin       the carry-in / borrow-in bit                                *)
(*   op        the alias last resolved, "none" before the first            *)
(*   out       the type it resolved to (a half circuit's two outputs are   *)
(*             held as the pair <<carry or borrow, sum or difference>>)    *)
(* The remaining variables follow the compiler through the resolution of   *)
(* Sum<lhs, rhs> or Diff<lhs, rhs>, one unfolding of SumWithCarry /        *)
(* DifferenceWithBorrow at a time:                                         *)
(*   pc        "idle", "unfold", "trim" or "done"                          *)
(*   kind      "Sum" or "Diff"                                             *)
(*   frame     the instantiation being unfolded: Self, Rhs, CarryIn        *)
(*   sel       the conditional of the last unfolding: its condition, its   *)
(*             two Lazy branches and the branch Select chose               *)
(*   forced    every Lazy whose Output has been projected so far           *)
(*   acc       the bits resolved so far, most significant first            *)
(*   unfolds   the number of unfoldings taken                              *)
(*   res       the resolved type once pc = "done"                          *)
(* Array<T, N> is instantiated with N = lhs:                               *)
(*   slice     the slice handed to a constructor                           *)
(*   ctor      the constructor last called, "none" before the first        *)
(*   ret       what it returned: Ok with the array's cells, Err with a     *)
(*             BadLength, or the panic it ended in                         *)
(***************************************************************************)
VARIABLES lhs, rhs, cin, op, out, pc, kind, frame, sel, forced, acc, unfolds, res,
          slice, ctor, ret

vars == <<lhs, rhs, cin, op, out, pc, kind, frame, sel, forced, acc, unfolds, res,
          slice, ctor, ret>>

\* The variables of Array<T, N>, which the bitstring aliases leave alone.
array == <<slice, ctor, ret>>

inputs == <<lhs, rhs, cin>>

resolved == <<op, out>>

stepper == <<pc, kind, frame, sel, forced, acc, unfolds, res>>

NoFrame == [Self |-> <<B0>>, Rhs |-> <<B0>>, CarryIn |-> B0]

NoSel == [cond |-> FALSE, then |-> Thunk(<<B0>>), else |-> Thunk(<<B0>>),
          chosen |-> Thunk(<<B0>>)]

Init ==
    /\ lhs \in Bitstrings(MaxLen)
    /\ rhs \in Bitstrings(MaxLen)
    /\ cin \in BitSet
    /\ op = "none"
    /\ out = <<>>
    /\ pc = "idle"
    /\ kind = "Sum"
    /\ frame = NoFrame
    /\ sel = NoSel
    /\ forced = {}
    /\ acc = <<>>
    /\ unfolds = 0
    /\ res = <<>>
    /\ slice = <<>>
    /\ ctor = "none"
    /\ ret = [tag |-> "none", data |-> <<>>, found |-> 0, expected |-> 0]

Resolve(name, type) ==
    /\ pc = "idle"
    /\ op' = name
    /\ out' = type
    /\ UNCHANGED <<inputs, stepper, array>>

\* gates.rs: And<A, B>, Or<A, B>, Not<A>
EvalAnd == Resolve("And", And(lhs, rhs))

EvalOr == Resolve("Or", Or(lhs, rhs))

EvalNot == Resolve("Not", Not(lhs))

\* gates.rs: Xor<A, B>
EvalXor == Resolve("Xor", Xor(lhs, rhs))

\* bitstring! applied to the digits of A::render()
EvalRoundTrip == Resolve("RoundTrip", bitstring(render(lhs)))

\* <A as Bitstring>::Trimmed
EvalTrimmed == Resolve("Trimmed", Trimmed(lhs))

\* Sum<A, B> and Diff<A, B>
EvalSum == Resolve("Sum", Sum(lhs, rhs))

EvalDiff == Resolve("Diff", Diff(lhs, rhs))

\* Diff<Sum<A, B>, B> and Diff<Sum<A, B>, A>, held as a pair
EvalDiffOfSum ==
    Resolve("DiffOfSum", <<Diff(Sum(lhs, rhs), rhs), Diff(Sum(lhs, rhs), lhs)>>)

\* Diff<A, A>
EvalDiffSelf == Resolve("DiffSelf", Diff(lhs, lhs))

\* HalfAdd and HalfSubtract are implemented for single bits only.
EvalHalfAdd ==
    /\ ~IsTape(lhs) /\ ~IsTape(rhs)
    /\ Resolve("HalfAdd", <<HalfAddCarry(lhs[1], rhs[1], cin), HalfAddSum(lhs[1], rhs[1], cin)>>)

EvalHalfSubtract ==
    /\ ~IsTape(lhs) /\ ~IsTape(rhs)
    /\ Resolve("HalfSubtract",
               <<HalfSubtractBorrow(lhs[1], rhs[1], cin),
                 HalfSubtractDifference(lhs[1], rhs[1], cin)>>)

(***************************************************************************)
(* The resolution of Sum / Diff, unfolding by unfolding.                   *)
(***************************************************************************)
\* Sum<A, B> starts at SumWithCarry<B, B0>, Diff<A, B> at DifferenceWithBorrow<B, B0>.
Begin(k) ==
    /\ pc = "idle"
    /\ op' = "none"
    /\ out' = <<>>
    /\ pc' = "unfold"
    /\ kind' = k
    /\ frame' = [Self |-> lhs, Rhs |-> rhs, CarryIn |-> B0]
    /\ sel' = NoSel
    /\ forced' = {}
    /\ acc' = <<>>
    /\ unfolds' = 0
    /\ res' = <<>>
    /\ UNCHANGED <<inputs, array>>

\* The two Lazy branches of the conditional in SumWithCarry / DifferenceWithBorrow.
BaseBranch(k, f) ==
    IF k = "Sum"
    THEN Thunk(<<HalfAddCarry(LsbOf(f.Self), LsbOf(f.Rhs), f.CarryIn)>>)
    ELSE Thunk(<<B0>>)

RecurseBranch(k, f) ==
    IF k = "Sum"
    THEN AddRecurse(f.Self, f.Rhs, f.CarryIn)
    ELSE SubtractRecurse(f.Self, f.Rhs, f.CarryIn)

LsbBit(k, f) ==
    IF k = "Sum"
    THEN HalfAddSum(LsbOf(f.Self), LsbOf(f.Rhs), f.CarryIn)
    ELSE HalfSubtractDifference(LsbOf(f.Self), LsbOf(f.Rhs), f.CarryIn)

\* The operands themselves in place of their heads.
WholeOr(Self, Rhs) == Or(Self, Rhs)

\* The head of Self alone.
OwnHead(Self, Rhs) == Trimmed(HeadOf(Self))

\* The OR of the two heads bit by bit at the longer written width, left
\* untrimmed.
HeadsOrUntrimmed(Self, Rhs) ==
    LET h == HeadOf(Self)
        r == HeadOf(Rhs)
        n == IF Len(h) >= Len(r) THEN Len(h) ELSE Len(r)
        bit(x, i) == IF i <= n - Len(x) THEN B0 ELSE x[i - (n - Len(x))]
    IN  [i \in 1..n |-> BitOr(bit(h, i), bit(r, i))]

\* Or<Self::Head, Rhs::Head>, the bitstring the base-case test of
\* SumWithCarry / DifferenceWithBorrow is applied to.
HeadsOr(Self, Rhs) == Or(HeadOf(Self), HeadOf(Rhs))

\* One unfolding: the condition IsB0<Or<Self::Head, Rhs::Head>> is resolved,
\* Select picks a branch and the Output of that branch is projected.  A Thunk
\* gives the leading bit and ends the recursion; AddRecurse / SubtractRecurse
\* gives the next instantiation.
Unfold ==
    /\ pc = "unfold"
    /\ unfolds < MaxUnfold
    /\ LET cond == IsB0(HeadsOr(frame.Self, frame.Rhs))
           T == BaseBranch(kind, frame)
           F == RecurseBranch(kind, frame)
           chosen == Select(cond, T, F)
       IN /\ sel' = [cond |-> cond, then |-> T, else |-> F, chosen |-> chosen]
          /\ forced' = forced \cup {chosen}
          /\ unfolds' = unfolds + 1
          /\ IF chosen.lazy = "Thunk"
             THEN /\ acc' = chosen.T \o <<LsbBit(kind, frame)>> \o acc
                  /\ pc' = "trim"
                  /\ frame' = frame
             ELSE /\ acc' = <<LsbBit(kind, frame)>> \o acc
                  /\ pc' = "unfold"
                  /\ frame' = RecurseArgs(chosen)
    /\ UNCHANGED <<inputs, resolved, kind, res, array>>

\* The outermost <... as Bitstring>::Trimmed of Sum / Difference.
Trim ==
    /\ pc = "trim"
    /\ res' = Trimmed(acc)
    /\ pc' = "done"
    /\ UNCHANGED <<inputs, resolved, kind, frame, sel, forced, acc, unfolds, array>>

Next ==
    \/ EvalAnd
    \/ EvalOr
    \/ EvalNot
    \/ EvalXor
    \/ EvalRoundTrip
    \/ EvalTrimmed
    \/ EvalSum
    \/ EvalDiff
    \/ EvalDiffOfSum
    \/ EvalDiffSelf
    \/ EvalHalfAdd
    \/ EvalHalfSubtract
    \/ \E k \in {"Sum", "Diff"} : Begin(k)
    \/ Unfold
    \/ Trim

Spec == Init /\ [][Next]_vars

(***************************************************************************)
(* array.rs: the internal array type of a length bitstring                 *)
(***************************************************************************)
\* struct ArrayTerm
ArrayTerm == [array |-> "ArrayTerm"]

\* struct ArrayEven<T, U> { left: U, right: U, _phantom }
ArrayEven(U) == [array |-> "ArrayEven", left |-> U, right |-> U]

\* struct ArrayOdd<T, U> { left: U, right: U, data: T }
ArrayOdd(U) == [array |-> "ArrayOdd", left |-> U, right |-> U, data |-> "T"]

\* size_of an internal array type, counted in elements of T: the fields of
\* the #[repr(C)] structs laid out one after the other.
RECURSIVE size_of(_)
size_of(A) ==
    CASE A.array = "ArrayTerm" -> 0
      [] A.array = "ArrayEven" -> size_of(A.left) + size_of(A.right)
      [] A.array = "ArrayOdd"  -> size_of(A.left) + size_of(A.right) + 1

\* <B as IsB0>::ArrayIsB0: the array conditionals' Boolean for "B is B0"
ArrayIsB0(X) == IF IsTape(X) THEN FALSE ELSE Bool(BitNot(X[1]))

\* struct ArrayRecurse<T, B>
ArrayRecurse(B) == [lazy |-> "ArrayRecurse", B |-> B]

\* struct ArrayEvenRecurse<T, B>
ArrayEvenRecurse(B) == [lazy |-> "ArrayEvenRecurse", B |-> B]

\* struct ArrayOddRecurse<T, B>
ArrayOddRecurse(B) == [lazy |-> "ArrayOddRecurse", B |-> B]

RECURSIVE ArrayOutput(_)
RECURSIVE ArrayType(_)

\* array_conditionals::If
ArrayIf(Cond, T, F) == ArrayOutput(Select(Cond, T, F))

\* impl Lazy for ArrayRecurse: even recursion when the Lsb is B0, else odd
ArrayRecurseOutput(B) ==
    ArrayIf(ArrayIsB0(<<LsbOf(B)>>), ArrayEvenRecurse(B), ArrayOddRecurse(B))

\* ArrayEvenRecurse's Output with an element of its own.
ArrayEvenRecurseOutputOdd(B) == ArrayOdd(ArrayType(HeadOf(B)))

\* impl Lazy for ArrayEvenRecurse
ArrayEvenRecurseOutput(B) == ArrayEven(ArrayType(HeadOf(B)))

\* impl Lazy for ArrayOddRecurse
ArrayOddRecurseOutput(B) == ArrayOdd(ArrayType(HeadOf(B)))

\* Lazy::Output in array_conditionals
ArrayOutput(L) ==
    CASE L.lazy = "Thunk"            -> L.T
      [] L.lazy = "ArrayRecurse"     -> ArrayRecurseOutput(L.B)
      [] L.lazy = "ArrayEvenRecurse" -> ArrayEvenRecurseOutput(L.B)
      [] L.lazy = "ArrayOddRecurse"  -> ArrayOddRecurseOutput(L.B)

\* HasArray::ArrayType<T>: the terminator when the whole bitstring trims to
\* B0, the recursion on the trimmed bitstring otherwise
ArrayType(B) ==
    ArrayIf(ArrayIsB0(Trimmed(B)), Thunk(ArrayTerm), ArrayRecurse(Trimmed(B)))

(***************************************************************************)
(* array.rs: Array<T, N> and its constructors.  An array is the sequence   *)
(* of the elements of T its storage holds; a constructor call ends in Ok   *)
(* with that array, in Err with a BadLength, or in a panic.                *)
(***************************************************************************)
\* Bounds of the slices handed to the constructors.
MaxSliceLen == 16

MaxElem == 3

\* T::default(), for T = u32 as in the test arrays_runtime
DefaultElem == 0

\* The content of memory nobody wrote (MaybeUninit::uninit(), or what lies
\* past the end of an array): any bits at all.
Uninit == -1

NoRet == [tag |-> "none", data |-> <<>>, found |-> 0, expected |-> 0]

Ok(data) == [tag |-> "Ok", data |-> data, found |-> 0, expected |-> 0]

\* BadLength { found, expected }, returned in Err
BadLength(found, expected) ==
    [tag |-> "Err", data |-> <<>>, found |-> found, expected |-> expected]

\* panic!("tried to construct array from slice of incorrect length")
Panic == [tag |-> "panic", data |-> <<>>, found |-> 0, expected |-> 0]

\* unreachable!()
Unreachable == [tag |-> "unreachable", data |-> <<>>, found |-> 0, expected |-> 0]

\* A write or a reference past the storage of the array: undefined
\* behaviour, after which nothing about the call can be relied on.
Undefined == [tag |-> "undefined", data |-> <<>>, found |-> 0, expected |-> 0]

\* Array::len
len(N) == Value(N)

\* Array::uninit / uninit_boxed: the storage of <N as HasArray>::ArrayType
uninit(N) == [i \in 1..size_of(ArrayType(N)) |-> Uninit]

\* Array::as_slice / as_mut_slice: N::UNSIGNED elements from the start of
\* the array
as_slice(N, cells) ==
    [i \in 1..len(N) |-> IF i \in DOMAIN cells THEN cells[i] ELSE Uninit]

\* const_transmute: panics when the two types differ in size
const_transmute(a, sizeA, sizeB) ==
    IF sizeA # sizeB THEN Panic ELSE Ok(a)

\* Array<MaybeUninit<T>, N>::assume_init
assume_init(N, cells) ==
    const_transmute(cells, size_of(ArrayType(N)), size_of(ArrayType(N)))

\* &*(slice.as_ptr() as *const Self): the slice's memory seen as the array
Reinterpret(N, s) ==
    IF size_of(ArrayType(N)) > Len(s) THEN Undefined
    ELSE Ok(SubSeq(s, 1, size_of(ArrayType(N))))

RECURSIVE WriteDefaults(_, _, _)
RECURSIVE WriteClones(_, _, _, _)

\* The loop of new() stopping one element early.
WriteDefaultsButLast(cells, i, n) ==
    IF i >= n THEN cells
    ELSE WriteDefaults([cells EXCEPT ![i] = DefaultElem], i + 1, n)

\* for elem in uninit.as_mut_slice() { elem.write(T::default()) }, from the
\* i-th of the n elements of the slice on
WriteDefaults(cells, i, n) ==
    IF i > n THEN cells
    ELSE WriteDefaults([cells EXCEPT ![i] = DefaultElem], i + 1, n)

\* for i in 0..N::UNSIGNED { uninit[i].write(slice[i].clone()) }
WriteClones(cells, s, i, n) ==
    IF i > n THEN cells
    ELSE WriteClones([cells EXCEPT ![i] = s[i]], s, i + 1, n)

\* try_from_slice reporting the two lengths in each other's place.
try_from_sliceSwapped(N, s) ==
    IF Len(s) # len(N) THEN BadLength(len(N), Len(s))
    ELSE Reinterpret(N, s)

\* Array::try_from_slice
try_from_slice(N, s) ==
    IF Len(s) # len(N) THEN BadLength(Len(s), len(N))
    ELSE Reinterpret(N, s)

\* Array::from_slice
from_slice(N, s) ==
    IF Len(s) # len(N) THEN Panic
    ELSE LET r == try_from_slice(N, s)
         IN  IF r.tag = "Err" THEN Unreachable ELSE r

\* Array::try_from_mut_slice
try_from_mut_slice(N, s) ==
    IF Len(s) # len(N) THEN BadLength(Len(s), len(N))
    ELSE Reinterpret(N, s)

\* Array::from_mut_slice
from_mut_slice(N, s) ==
    IF Len(s) # len(N) THEN Panic
    ELSE LET r == try_from_mut_slice(N, s)
         IN  IF r.tag = "Err" THEN Unreachable ELSE r

\* Array::new
new(N) ==
    IF len(N) > Len(uninit(N)) THEN Undefined
    ELSE const_transmute(WriteDefaults(uninit(N), 1, len(N)),
                         size_of(ArrayType(N)), size_of(ArrayType(N)))

\* Array::new_boxed: the same on the heap (the two Box types transmuted are
\* one pointer each)
new_boxed(N) ==
    IF len(N) > Len(uninit(N)) THEN Undefined
    ELSE const_transmute(WriteDefaults(uninit(N), 1, len(N)),
                         size_of(ArrayType(N)), size_of(ArrayType(N)))

\* impl Default for Array
default(N) == new(N)

\* try_new_from_slice checking the length against one element more.
try_new_from_sliceOffByOne(N, s) ==
    IF Len(s) # len(N) + 1 THEN BadLength(Len(s), len(N))
    ELSE IF len(N) > Len(uninit(N)) THEN Undefined
    ELSE assume_init(N, WriteClones(uninit(N), s, 1, len(N)))

\* Array::try_new_from_slice
try_new_from_slice(N, s) ==
    IF Len(s) # len(N) THEN BadLength(Len(s), len(N))
    ELSE IF len(N) > Len(uninit(N)) THEN Undefined
    ELSE assume_init(N, WriteClones(uninit(N), s, 1, len(N)))

\* Array::new_from_slice
new_from_slice(N, s) ==
    IF Len(s) # len(N) THEN Panic
    ELSE LET r == try_new_from_slice(N, s)
         IN  IF r.tag = "Err" THEN Unreachable ELSE r

\* Array::try_new_boxed_from_slice
try_new_boxed_from_slice(N, s) ==
    IF Len(s) # len(N) THEN BadLength(Len(s), len(N))
    ELSE IF len(N) > Len(uninit(N)) THEN Undefined
    ELSE assume_init(N, WriteClones(uninit(N), s, 1, len(N)))

\* Array::new_boxed_from_slice
new_boxed_from_slice(N, s) ==
    IF Len(s) # len(N) THEN Panic
    ELSE LET r == try_new_boxed_from_slice(N, s)
         IN  IF r.tag = "Err" THEN Unreachable ELSE r

(***************************************************************************)
(* Calls of the constructors of Array<T, N> with N = lhs on the slice.     *)
(***************************************************************************)
MkSlice(n, seed) == [i \in 1..n |-> ((i + seed) % MaxElem) + 1]

Slices == {MkSlice(n, seed) : n \in 0..MaxSliceLen, seed \in 0..(MaxElem - 1)}

ArrayInit ==
    /\ lhs \in Bitstrings(MaxLen)
    /\ rhs = <<B0>>
    /\ cin = B0
    /\ op = "none"
    /\ out = <<>>
    /\ pc = "idle"
    /\ kind = "Sum"
    /\ frame = NoFrame
    /\ sel = NoSel
    /\ forced = {}
    /\ acc = <<>>
    /\ unfolds = 0
    /\ res = <<>>
    /\ slice \in Slices
    /\ ctor = "none"
    /\ ret = NoRet

Construct(name, result) ==
    /\ ctor' = name
    /\ ret' = result
    /\ UNCHANGED <<inputs, resolved, stepper, slice>>

CallUninit == Construct("uninit", Ok(uninit(lhs)))

CallTryFromSlice == Construct("try_from_slice", try_from_slice(lhs, slice))

CallFromSlice == Construct("from_slice", from_slice(lhs, slice))

CallTryFromMutSlice ==
    Construct("try_from_mut_slice", try_from_mut_slice(lhs, slice))

CallFromMutSlice == Construct("from_mut_slice", from_mut_slice(lhs, slice))

CallNew == Construct("new", new(lhs))

CallNewBoxed == Construct("new_boxed", new_boxed(lhs))

CallDefault == Construct("default", default(lhs))

CallTryNewFromSlice ==
    Construct("try_new_from_slice", try_new_from_slice(lhs, slice))

CallNewFromSlice == Construct("new_from_slice", new_from_slice(lhs, slice))

CallTryNewBoxedFromSlice ==
    Construct("try_new_boxed_from_slice", try_new_boxed_from_slice(lhs, slice))

CallNewBoxedFromSlice ==
    Construct("new_boxed_from_slice", new_boxed_from_slice(lhs, slice))

ArrayNext ==
    \/ CallUninit
    \/ CallTryFromSlice
    \/ CallFromSlice
    \/ CallTryFromMutSlice
    \/ CallFromMutSlice
    \/ CallNew
    \/ CallNewBoxed
    \/ CallDefault
    \/ CallTryNewFromSlice
    \/ CallNewFromSlice
    \/ CallTryNewBoxedFromSlice
    \/ CallNewBoxedFromSlice

ArraySpec == ArrayInit /\ [][ArrayNext]_vars

(***************************************************************************)
(* Arithmetic on the naturals, against which the bit-level circuits are    *)
(* compared.                                                               *)
(***************************************************************************)
RECURSIVE Pow2(_)
Pow2(n) == IF n = 0 THEN 1 ELSE 2 * Pow2(n - 1)

\* Bits needed to write the natural v without a leading zero (1 for v = 0).
RECURSIVE BitLen(_)
BitLen(v) == IF v < 2 THEN 1 ELSE 1 + BitLen(v \div 2)

RECURSIVE NatAnd(_, _)
NatAnd(x, y) ==
    IF x = 0 \/ y = 0 THEN 0
    ELSE 2 * NatAnd(x \div 2, y \div 2) + (IF x % 2 = 1 /\ y % 2 = 1 THEN 1 ELSE 0)

RECURSIVE NatOr(_, _)
NatOr(x, y) ==
    IF x = 0 THEN y
    ELSE IF y = 0 THEN x
    ELSE 2 * NatOr(x \div 2, y \div 2) + (IF x % 2 = 1 \/ y % 2 = 1 THEN 1 ELSE 0)

Max(x, y) == IF x >= y THEN x ELSE y

\* No leading zero bit, unless the bitstring is the single bit B0.
Canonical(X) == Len(X) = 1 \/ X[1] = B1

\* A digit string with no leading "0" except the string "0" itself.
CanonicalRender(S) == S = <<"0">> \/ S[1] = "1"

AllZero(X) == \A i \in 1..Len(X) : X[i] = B0

(***************************************************************************)
(* Properties                                                              *)
(***************************************************************************)

\* C1: Sum<a, b> is the bitstring whose value is value(a) + value(b), for
\* single bits and tapes, equal and different lengths, with and without
\* leading zero bits, also when the sum is one bit longer than the operands.
C1_SumIsAddition ==
    op = "Sum" => Value(out) = Value(lhs) + Value(rhs)

\* 10 + 110 = 1000: the sum is one bit longer than the longer operand.
C1_Witness ==
    op = "Sum" /\ lhs = <<1, 0>> /\ rhs = <<1, 1, 0>> /\ out = <<1, 0, 0, 0>>

\* C2: when value(a) >= value(b), Diff<a, b> is the canonical bitstring of
\* value(a) - value(b), and the borrow out of the last unfolding, which the
\* base case discards, is B0.
C2_DiffIsSubtraction ==
    /\ op = "Diff" /\ Value(lhs) >= Value(rhs)
          => Canonical(out) /\ Value(out) = Value(lhs) - Value(rhs)
    /\ pc = "done" /\ kind = "Diff" /\ Value(lhs) >= Value(rhs)
          => /\ HalfSubtractBorrow(LsbOf(frame.Self), LsbOf(frame.Rhs), frame.CarryIn) = B0
             /\ Canonical(res) /\ Value(res) = Value(lhs) - Value(rhs)

\* 1011 - 110 = 101
C2_Witness ==
    op = "Diff" /\ lhs = <<1, 0, 1, 1>> /\ rhs = <<1, 1, 0>> /\ out = <<1, 0, 1>>

\* C3 as stated: when value(a) < value(b), Diff<a, b> has the value
\* (2^n - (value(b) - value(a))) mod 2^n with n the number of bits of the
\* longer operand as written.
C3_WrapAtWrittenWidth ==
    op = "Diff" /\ Value(lhs) < Value(rhs)
        => LET n == Max(Len(lhs), Len(rhs))
           IN Value(out) = (Pow2(n) - (Value(rhs) - Value(lhs))) % Pow2(n)

\* C3 amended: when value(a) < value(b), Diff<a, b> has the value
\* (2^n - (value(b) - value(a))) mod 2^n with n the number of bits of the
\* longer operand once leading zero bits are left out (here that of b).
C3_WrapAtTrimmedWidth ==
    op = "Diff" /\ Value(lhs) < Value(rhs)
        => LET n == Max(BitLen(Value(lhs)), BitLen(Value(rhs)))
           IN Value(out) = (Pow2(n) - (Value(rhs) - Value(lhs))) % Pow2(n)

\* 001 - 010 = 11 (1 - 2 = 3 mod 4): the operands are written with 3 bits
\* and need 2.
C3_Witness ==
    op = "Diff" /\ lhs = <<0, 0, 1>> /\ rhs = <<0, 1, 0>> /\ out = <<1, 1>>

\* C4: for the 8 combinations of (a, b, carry_in) HalfAdd gives
\* Sum = a XOR b XOR carry_in and Carry = (a AND b) OR ((a XOR b) AND carry_in),
\* so a + b + carry_in = 2 * Carry + Sum; BitXor is the exclusive or.
C4_HalfAddTruthTable ==
    op = "HalfAdd" =>
        LET a == lhs[1]
            b == rhs[1]
        IN /\ out[2] = (a + b + cin) % 2
           /\ out[1] = (IF a + b + cin >= 2 THEN 1 ELSE 0)
           /\ a + b + cin = 2 * out[1] + out[2]
           /\ BitXor(a, b) = (a + b) % 2

\* 1 + 1 + 1 = 11
C4_Witness ==
    op = "HalfAdd" /\ lhs = <<1>> /\ rhs = <<1>> /\ cin = 1 /\ out = <<1, 1>>

\* C5: for the 8 combinations of (a, b, borrow_in) HalfSubtract gives
\* Difference = a XOR b XOR borrow_in and
\* Borrow = ((NOT a) AND b) OR ((NOT (a XOR b)) AND borrow_in),
\* so a - b - borrow_in = Difference - 2 * Borrow.
C5_HalfSubtractTruthTable ==
    op = "HalfSubtract" =>
        LET a == lhs[1]
            b == rhs[1]
        IN /\ out[2] = (a + b + cin) % 2
           /\ out[1] = (IF a < b + cin THEN 1 ELSE 0)
           /\ a - b - cin = out[2] - 2 * out[1]

\* 0 - 1 - 1 = -2: difference 0, borrow 1
C5_Witness ==
    op = "HalfSubtract" /\ lhs = <<0>> /\ rhs = <<1>> /\ cin = 1 /\ out = <<1, 0>>

\* The last unfolding met the base case: both heads denote zero.
AtBase == Value(HeadOf(sel.else.A)) = 0 /\ Value(HeadOf(sel.else.B)) = 0

\* C6: If<Cond, T, F> is the Output of T when Cond is True and the Output of
\* F when Cond is False, and the Output of the branch not selected is never
\* projected; when add or subtract reaches its base case the Output of
\* AddRecurse / SubtractRecurse is not forced.
C6_LazyConditional ==
    unfolds > 0 =>
        /\ sel.cond => sel.chosen = sel.then /\ sel.else \notin forced
        /\ ~sel.cond => sel.chosen = sel.else /\ sel.then \notin forced
        /\ sel.cond => If(sel.cond, sel.then, sel.else) = sel.then.T
        /\ AtBase => sel.chosen.lazy = "Thunk"
        /\ \A l \in forced :
              l.lazy # "Thunk" => Value(HeadOf(l.A)) + Value(HeadOf(l.B)) > 0

\* 11 + 1 has reached its base case at the second unfolding, after forcing
\* AddRecurse once and then the Thunk of the carry.
C6_Witness ==
    /\ pc = "trim" /\ kind = "Sum" /\ lhs = <<1, 1>> /\ rhs = <<1>>
    /\ unfolds = 2 /\ sel.cond /\ AtBase /\ Cardinality(forced) = 2

\* C7: Trimmed<b> has the value of b and no leading zero bit unless it is
\* the single bit B0; a bitstring of zero bits only trims to B0 and a single
\* bit is its own trimmed form.
C7_TrimmedIsCanonical ==
    op = "Trimmed" =>
        /\ Value(out) = Value(lhs)
        /\ Canonical(out)
        /\ AllZero(lhs) => out = <<B0>>
        /\ ~IsTape(lhs) => out = lhs

\* 0010 trims to 10
C7_Witness ==
    op = "Trimmed" /\ lhs = <<0, 0, 1, 0>> /\ out = <<1, 0>>

\* C8: trimming is idempotent, Trimmed<Trimmed<b>> is Trimmed<b>.
C8_TrimmedIdempotent ==
    op = "Trimmed" => Trimmed(out) = out

\* 011 trims to 11, which trims to itself
C8_Witness ==
    op = "Trimmed" /\ lhs = <<0, 1, 1>> /\ out = <<1, 1>> /\ Trimmed(out) = <<1, 1>>

\* C9: And<a, b> and Or<a, b> are the bitwise AND / OR of the operands
\* aligned at the least significant bit, the shorter operand's missing bits
\* taken as zero, whichever operand is the longer or a single bit.
C9_AndOrBitwise ==
    /\ op = "And" => Value(out) = NatAnd(Value(lhs), Value(rhs))
    /\ op = "Or" => Value(out) = NatOr(Value(lhs), Value(rhs))

\* 1 OR 110 = 111: a single bit with a longer tape
C9_Witness ==
    op = "Or" /\ lhs = <<1>> /\ rhs = <<1, 1, 0>> /\ out = <<1, 1, 1>>

C12_ZeroIsIdentity ==
    op = "Sum" /\ AllZero(rhs) => out = Trimmed(lhs) /\ Value(out) = Value(lhs)

\* 011 + 00 = 11
C12_Witness ==
    op = "Sum" /\ lhs = <<0, 1, 1>> /\ rhs = <<0, 0>> /\ out = <<1, 1>>

Ops == {"And", "Or", "Not", "Trimmed", "Sum", "Diff"}

\* The width of the wider operand as written.
Width == Max(Len(lhs), Len(rhs))

\* C13: Sum, Diff, Trimmed, And, Or and Not are total: each resolves to a
\* bitstring, and the recursion of Sum / Diff reaches its base case within
\* as many unfoldings as the wider operand has bits, so that no unfolding
\* takes the head of operands that are both already exhausted.
C13_Total ==
    /\ op \in Ops => out \in Bitstrings(Width + 1)
    /\ pc = "unfold" => unfolds < Width /\ unfolds < MaxUnfold
    /\ pc \in {"trim", "done"} => unfolds <= Width
    /\ pc = "done" => res \in Bitstrings(Width + 1)

\* 1111 - 1 is resolved in four unfoldings
C13_Witness ==
    pc = "done" /\ kind = "Diff" /\ lhs = <<1, 1, 1, 1>> /\ rhs = <<1>>
        /\ unfolds = 4 /\ res = <<1, 1, 1, 0>>

\* The Thunks among the Lazies forced so far: the base cases taken.
BaseCases == {l \in forced : l.lazy = "Thunk"}

\* C19: add and subtract are one linear recursion: Sum<a, b> / Diff<a, b>
\* unfolds SumWithCarry / DifferenceWithBorrow exactly max(L(a), L(b))
\* times, L(x) the bit-length of x trimmed (1 for zero), and the last
\* unfolding is the only one that takes the base case.
C19_UnfoldingCount ==
    /\ pc = "unfold" => BaseCases = {} /\ Cardinality(forced) = unfolds
    /\ pc \in {"trim", "done"} =>
          /\ unfolds = Max(BitLen(Value(lhs)), BitLen(Value(rhs)))
          /\ Cardinality(forced) = unfolds
          /\ BaseCases = {sel.chosen}

\* 0010 + 101 takes three unfoldings, the bit-length of 101, not the four
\* bits 0010 is written with.
C19_Witness ==
    pc = "done" /\ kind = "Sum" /\ lhs = <<0, 0, 1, 0>> /\ rhs = <<1, 0, 1>>
        /\ unfolds = 3 /\ Cardinality(BaseCases) = 1

RECURSIVE NatXor(_, _)
NatXor(x, y) ==
    IF x = 0 THEN y
    ELSE IF y = 0 THEN x
    ELSE 2 * NatXor(x \div 2, y \div 2) + (IF x % 2 = y % 2 THEN 0 ELSE 1)

\* C14: Xor<a, b> = Or<And<a, Not<b>>, And<Not<a>, b>> is the bitwise XOR of
\* the two bitstrings aligned at the least significant bit, the shorter
\* operand's higher bits taken as zero: value(Xor<a, b>) = value(a) XOR
\* value(b), for operands of equal or different lengths, trimmed or not.
C14_XorBitwise ==
    op = "Xor" => Value(out) = NatXor(Value(lhs), Value(rhs))

\* C15: render(b) is the digits of b most significant first, and building
\* a bitstring from the digits of render(b) with the literal constructor
\* gives a bitstring with the value and the render of b (checked for every
\* b, canonical or not).
C15_RenderRoundTrip ==
    op = "RoundTrip" =>
        /\ Len(render(lhs)) = Len(lhs)
        /\ \A i \in 1..Len(lhs) : render(lhs)[i] = (IF lhs[i] = 1 THEN "1" ELSE "0")
        /\ Value(out) = Value(lhs)
        /\ render(out) = render(lhs)

\* 110 renders as "110", which bs!(1, 1, 0) builds back
C15_Witness ==
    op = "RoundTrip" /\ lhs = <<1, 1, 0>> /\ render(lhs) = <<"1", "1", "0">>
        /\ out = <<1, 1, 0>>


\* C17: for every length bitstring N (lhs), trimmed or not, the internal
\* array type HasArray::ArrayType holds exactly value(N) element slots: an
\* ArrayTerm holds none, an ArrayEven<U> twice the slots of U, an ArrayOdd<U>
\* twice the slots of U and one more.  So the storage of Array<T, N> is
\* value(N) elements, the length that len and as_slice report, and every
\* array a constructor returns has that many; value(N) = 0 gives the empty
\* array.
C17_ArrayTypeSlots ==
    LET A == ArrayType(lhs) IN
    /\ size_of(A) = Value(lhs)
    /\ A.array = "ArrayTerm" <=> Value(lhs) = 0
    /\ A.array = "ArrayEven" => size_of(A) = 2 * size_of(A.left) /\ A.right = A.left
    /\ A.array = "ArrayOdd" => size_of(A) = 2 * size_of(A.left) + 1 /\ A.right = A.left
    /\ Len(uninit(lhs)) = len(lhs)
    /\ ret.tag = "Ok" =>
           /\ Len(ret.data) = Value(lhs)
           /\ as_slice(lhs, ret.data) = ret.data

C17_Witness ==
    /\ ctor = "uninit"
    /\ lhs = <<0, 1, 0>>
    /\ ArrayType(lhs) = ArrayEven(ArrayOdd(ArrayTerm))
    /\ ret.tag = "Ok"
    /\ Len(ret.data) = 2

\* C16: for every length bitstring N (lhs) and every slice, try_from_slice,
\* try_from_mut_slice, try_new_from_slice and try_new_boxed_from_slice return
\* Err(BadLength) exactly when the length of the slice differs from
\* value(N), with expected = value(N) and found = the length of the slice;
\* otherwise they return Ok with an array whose contents equal the slice.
Fallible ==
    {"try_from_slice", "try_from_mut_slice",
     "try_new_from_slice", "try_new_boxed_from_slice"}

C16_FallibleConstructors ==
    ctor \in Fallible =>
        /\ ret.tag \in {"Ok", "Err"}
        /\ ret.tag = "Err" <=> Len(slice) # Value(lhs)
        /\ ret.tag = "Err" =>
               /\ ret.expected = Value(lhs)
               /\ ret.found = Len(slice)
        /\ ret.tag = "Ok" =>
               /\ ret.data = slice
               /\ as_slice(lhs, ret.data) = slice

C16_Witness ==
    /\ ctor = "try_from_slice"
    /\ lhs = <<1, 0, 1>>
    /\ Len(slice) = 4
    /\ ret.tag = "Err"
    /\ ret.expected = 5
    /\ ret.found = 4

\* C18: new(), default() and new_boxed() write T::default() into every one
\* of the value(N) slots before the array is reinterpreted as initialised:
\* the array returned has no slot left unwritten, its as_slice has length
\* value(N) and every element of it equals T::default().
Defaulting == {"new", "new_boxed", "default"}

C18_NewWritesEverySlot ==
    ctor \in Defaulting =>
        /\ ret.tag = "Ok"
        /\ \A i \in DOMAIN ret.data : ret.data[i] # Uninit
        /\ Len(as_slice(lhs, ret.data)) = Value(lhs)
        /\ \A i \in 1..Value(lhs) : as_slice(lhs, ret.data)[i] = DefaultElem

C18_Witness ==
    /\ ctor = "default"
    /\ lhs = <<1, 0, 1>>
    /\ ret.tag = "Ok"
    /\ as_slice(lhs, ret.data) =
           <<DefaultElem, DefaultElem, DefaultElem, DefaultElem, DefaultElem>>

\* C20: from_slice, from_mut_slice, new_from_slice and new_boxed_from_slice
\* panic exactly when the length of the slice differs from value(N); past
\* their own length check the inner try_* call returns Ok, so the
\* unreachable!() arm is never reached and the array holds the slice.
Panicking ==
    {"from_slice", "from_mut_slice", "new_from_slice", "new_boxed_from_slice"}

InnerTry(name) ==
    CASE name = "from_slice" -> try_from_slice(lhs, slice)
      [] name = "from_mut_slice" -> try_from_mut_slice(lhs, slice)
      [] name = "new_from_slice" -> try_new_from_slice(lhs, slice)
      [] name = "new_boxed_from_slice" -> try_new_boxed_from_slice(lhs, slice)

C20_PanickingConstructors ==
    ctor \in Panicking =>
        /\ ret.tag \in {"Ok", "panic"}
        /\ ret.tag = "panic" <=> Len(slice) # Value(lhs)
        /\ ret.tag # "panic" =>
               /\ InnerTry(ctor).tag = "Ok"
               /\ ret = InnerTry(ctor)
               /\ ret.data = slice

C20_Witness ==
    /\ ctor = "new_from_slice"
    /\ lhs = <<1, 0, 1>>
    /\ Len(slice) = 5
    /\ try_new_from_slice(lhs, slice).tag = "Ok"
    /\ ret.tag = "Ok"
    /\ ret.data = slice

\* C21: for all bitstrings a and b, however they are written,
\* value(Diff<a, b>) = (value(a) - value(b)) mod 2^n with n the larger of the
\* bit-lengths of the trimmed operands (1 for zero).  Leading zero bits
\* written in the operands change neither the modulus nor the result: Diff
\* of the operands is Diff of their trimmed forms.
C21_DiffModTrimmedWidth ==
    LET n == Max(BitLen(Value(lhs)), BitLen(Value(rhs)))
        d == (Pow2(n) + Value(lhs) - Value(rhs)) % Pow2(n)
    IN  /\ op = "Diff" =>
               /\ Value(out) = d
               /\ out = Diff(Trimmed(lhs), Trimmed(rhs))
        /\ pc = "done" /\ kind = "Diff" => Value(res) = d

\* 0001 - 0010 = 11 (1 - 2 = 3 mod 4), not 1111.
C21_Witness ==
    /\ op = "Diff" /\ lhs = <<0, 0, 0, 1>> /\ rhs = <<0, 0, 1, 0>>
    /\ out = <<1, 1>>

\* C22: subtraction undoes addition: for all bitstrings a and b,
\* Diff<Sum<a, b>, b> is the bitstring Trimmed<a> and Diff<Sum<a, b>, a> is
\* the bitstring Trimmed<b>; Diff<a, a> is the single bit B0.
C22_DiffUndoesSum ==
    /\ op = "DiffOfSum" => out[1] = Trimmed(lhs) /\ out[2] = Trimmed(rhs)
    /\ op = "DiffSelf" => out = <<B0>>

\* (011 + 110) - 110 = 11 and (011 + 110) - 011 = 110
C22_Witness ==
    /\ op = "DiffOfSum" /\ lhs = <<0, 1, 1>> /\ rhs = <<1, 1, 0>>
    /\ Sum(lhs, rhs) = <<1, 0, 0, 1>>
    /\ out = <<(<<1, 1>>), (<<1, 1, 0>>)>>

\* C23: for every bitstring a written with k bits, leading zero bits
\* counted, Not<a> is the trimmed form of the k-bit complement of a:
\* value(Not<a>) = 2^k - 1 - value(a) and Not<a> has no leading zero bit.  The
\* result depends on the written width: Not<10> = 1 but Not<010> = 101.
C23_NotAtWrittenWidth ==
    op = "Not" =>
        /\ Value(out) = Pow2(Len(lhs)) - 1 - Value(lhs)
        /\ Canonical(out)
        /\ Len(lhs) = 1 => out = <<BitNot(lhs[1])>>

C23_Witness ==
    /\ op = "Not" /\ lhs = <<0, 1, 0>> /\ out = <<1, 0, 1>>
    /\ Not(<<1, 0>>) = <<1>>

\* C24: in SumWithCarry and DifferenceWithBorrow the base case is taken
\* exactly when both operands' heads have the value zero, also when a head
\* is a zero written with several bits such as Tape<B0, B0>.  IsB0 of any
\* Tape is False, but the test is applied to Or<Head, Head>, which is trimmed
\* and is the single bit B0 exactly when both heads have the value zero.
HeadsZero(Self, Rhs) == Value(HeadOf(Self)) = 0 /\ Value(HeadOf(Rhs)) = 0

C24_BaseCaseIffHeadsZero ==
    /\ IsTape(lhs) => ~IsB0(lhs)
    /\ Canonical(Or(HeadOf(lhs), HeadOf(rhs)))
    /\ Or(HeadOf(lhs), HeadOf(rhs)) = <<B0>> <=> HeadsZero(lhs, rhs)
    /\ pc = "unfold" =>
           IsB0(HeadsOr(frame.Self, frame.Rhs)) <=> HeadsZero(frame.Self, frame.Rhs)
    /\ unfolds > 0 =>
           /\ sel.cond <=> HeadsZero(sel.else.A, sel.else.B)
           /\ sel.chosen.lazy = "Thunk" <=> HeadsZero(sel.else.A, sel.else.B)
           /\ sel.chosen.lazy = "Thunk" <=> pc \in {"trim", "done"}

\* 001 - 1: the heads are 00 and 0 at the first unfolding, which takes the
\* base case.
C24_Witness ==
    /\ pc = "trim" /\ kind = "Diff" /\ unfolds = 1
    /\ lhs = <<0, 0, 1>> /\ rhs = <<1>>
    /\ HeadOf(sel.else.A) = <<0, 0>>
    /\ IsTape(HeadOf(sel.else.A))
    /\ sel.cond
    /\ sel.chosen = Thunk(<<B0>>)

====
